---- MODULE Spec2Model ----
(***************************************************************************)
(* A model of mcp-sync (src/mcp_sync.py): one canonical registry of named  *)
(* server entries is merged into the configuration files of five tools.    *)
(*                                                                         *)
(* Representation.                                                         *)
(*  - A Python dict is an ordered mapping: a sequence of pairs with        *)
(*    distinct first components.  An entry is a sequence of <<key, value>> *)
(*    pairs, a servers mapping a sequence of <<name, entry>> pairs, a JSON *)
(*    document a sequence of items <<key, tag, str, map>> where tag says   *)
(*    whether the value is a mapping ("map", in map), a string ("str", in  *)
(*    str) or a list ("list", str = "" for the empty list).                *)
(*    json.dump writes a dict in this order, so two written files have the *)
(*    same bytes exactly when their documents are equal sequences, while   *)
(*    Python's == on dicts (DictEq) ignores the order.                     *)
(*  - A text file is the non-empty sequence of its lines, text.split("\n").*)
(*    The empty file is <<Blank>>.  A line is an entry header              *)
(*    <<"hdr", name, "q" or "b">> (quoted or bare key), another table's    *)
(*    header <<"tbl", name, "">>, a field line <<"kv", key, value>> or a   *)
(*    blank line.  White space inside a line is not modelled, and a header *)
(*    always stands on a line of its own.                                  *)
(***************************************************************************)
EXTENDS Integers, Sequences, FiniteSets, TLC

\* ------------------------------------------------------------ bounds
MaxLines == 4
MaxRuns == 2

\* ------------------------------------------------------------ configuration
TOOL_CONFIGS ==
    << [name |-> "claude_code", key |-> "mcpServers", format |-> "json"],
       [name |-> "gemini_cli",  key |-> "mcpServers", format |-> "json"],
       [name |-> "vscode",      key |-> "servers",    format |-> "json"],
       [name |-> "vscode_wsl",  key |-> "servers",    format |-> "json"],
       [name |-> "codex",       key |-> "mcp_servers", format |-> "toml"] >>

Tools == {TOOL_CONFIGS[i].name : i \in DOMAIN TOOL_CONFIGS}

ConfigOf(t) == TOOL_CONFIGS[CHOOSE i \in DOMAIN TOOL_CONFIGS : TOOL_CONFIGS[i].name = t]

\* ------------------------------------------------------------ ordered mappings
Keys(d) == {d[i][1] : i \in DOMAIN d}

HasKey(d, k) == \E i \in DOMAIN d : d[i][1] = k

ItemOf(d, k) == d[CHOOSE i \in DOMAIN d : d[i][1] = k]

\* dict.get(k) on an entry; the default stands for Python's None.
GetOr(d, k, default) == IF HasKey(d, k) THEN ItemOf(d, k)[2] ELSE default

\* d[k] = v on a dict of pairs: in place when k is there, appended otherwise.
DictSet(d, k, v) ==
    IF HasKey(d, k)
    THEN [i \in DOMAIN d |-> IF d[i][1] = k THEN <<k, v>> ELSE d[i]]
    ELSE Append(d, <<k, v>>)

\* Python's == on two dicts: the same pairs, in any order.
DictEq(d1, d2) == {d1[i] : i \in DOMAIN d1} = {d2[i] : i \in DOMAIN d2}

\* ------------------------------------------------------------ files
NoFile == [exists |-> FALSE, kind |-> "none", doc |-> <<>>, text |-> <<>>]

JsonFile(doc) == [exists |-> TRUE, kind |-> "doc", doc |-> doc, text |-> <<>>]

EmptyFile == [exists |-> TRUE, kind |-> "empty", doc |-> <<>>, text |-> <<>>]

GarbageFile == [exists |-> TRUE, kind |-> "garbage", doc |-> <<>>, text |-> <<>>]

TextFile(lines) == [exists |-> TRUE, kind |-> "text", doc |-> <<>>, text |-> lines]

Blank == <<"blank", "", "">>

IsHdr(line) == line[1] = "hdr"

IsTbl(line) == line[1] = "tbl"

\* ------------------------------------------------------------ transformations
RECURSIVE CopyFields(_, _, _, _)
\* The loop over config.items() of transform_json_format, from item i on.
CopyFields(config, tool_name, i, server_config) ==
    IF i > Len(config) THEN server_config
    ELSE LET key == config[i][1]
             value == config[i][2]
         IN  CopyFields(config, tool_name, i + 1,
                 IF /\ tool_name = "gemini_cli"
                    /\ GetOr(config, "type", "") = "http"
                    /\ key = "url"
                 THEN DictSet(server_config, "httpUrl", value)
                 ELSE DictSet(server_config, key, value))

transform_json_format(source_servers, tool_name) ==
    [i \in DOMAIN source_servers |->
        <<source_servers[i][1], CopyFields(source_servers[i][2], tool_name, 1, <<>>)>>]

\* One server's lines: the quoted header, a line per field, an empty line.
ServerLines(name, config) ==
    <<(<<"hdr", name, "q">>)>>
        \o [i \in DOMAIN config |-> <<"kv", config[i][1], config[i][2]>>]
        \o <<Blank>>

RECURSIVE CodexLines(_, _)
CodexLinesNoFilter(source_servers, i) ==
    IF i > Len(source_servers) THEN <<>>
    ELSE ServerLines(source_servers[i][1], source_servers[i][2])
             \o CodexLines(source_servers, i + 1)

\* toml_lines of transform_for_codex, from server i on.
CodexLines(source_servers, i) ==
    IF i > Len(source_servers) THEN <<>>
    ELSE IF GetOr(source_servers[i][2], "type", "") # "stdio"
         THEN CodexLines(source_servers, i + 1)
         ELSE ServerLines(source_servers[i][1], source_servers[i][2])
                  \o CodexLines(source_servers, i + 1)

\* "\n".join(toml_lines), as the lines of the joined text.
transform_for_codex(source_servers) ==
    LET toml_lines == CodexLines(source_servers, 1)
    IN  IF toml_lines = <<>> THEN <<Blank>> ELSE toml_lines

\* ------------------------------------------------------------ backup
BackupOnlyIfAbsent(dest, old_backup) ==
    IF dest.exists /\ ~old_backup.exists THEN dest ELSE old_backup

\* shutil.copy2(dest_path, backup_path) under "if dest_path.exists()": the
\* backup file after the call, old_backup being the backup file before it.
BackupOf(dest, old_backup) == IF dest.exists THEN dest ELSE old_backup

\* ------------------------------------------------------------ structured targets
\* settings after the read: {} for an absent, empty or undecodable file.
ReadSettings(dest) == IF dest.exists /\ dest.kind = "doc" THEN dest.doc ELSE <<>>

\* settings.get(config_key, {}) as a document item.
StoredUnder(settings, config_key) ==
    IF HasKey(settings, config_key) THEN ItemOf(settings, config_key)
    ELSE <<config_key, "map", "", <<>>>>

\* The add/update loop over transformed_data.items(), from item i on; acc holds
\* existing_servers and the two counters.
RECURSIVE AddUpdate(_, _, _)
AddUpdate(transformed_data, i, acc) ==
    IF i > Len(transformed_data) THEN acc
    ELSE LET name == transformed_data[i][1]
             config == transformed_data[i][2]
         IN  IF ~HasKey(acc.servers, name)
             THEN AddUpdate(transformed_data, i + 1,
                      [acc EXCEPT !.servers = Append(@, <<name, config>>),
                                  !.added = @ + 1])
             ELSE IF ~DictEq(ItemOf(acc.servers, name)[2], config)
                  THEN AddUpdate(transformed_data, i + 1,
                           [acc EXCEPT !.servers = DictSet(@, name, config),
                                       !.updated = @ + 1])
                  ELSE AddUpdate(transformed_data, i + 1, acc)

PruneAlways(existing_servers, transformed_data, prune) ==
    LET Kept(item) == HasKey(transformed_data, item[1])
    IN  SelectSeq(existing_servers, Kept)

\* existing_servers after the "if prune:" block.
PruneServers(existing_servers, transformed_data, prune) ==
    LET Kept(item) == HasKey(transformed_data, item[1])
    IN  IF prune THEN SelectSeq(existing_servers, Kept) ELSE existing_servers

StorageOnly(settings, config_key, servers) == <<(<<config_key, "map", "", servers>>)>>

\* settings[config_key] = existing_servers
SetStorage(settings, config_key, servers) ==
    IF HasKey(settings, config_key)
    THEN [i \in DOMAIN settings |->
            IF settings[i][1] = config_key
            THEN <<config_key, "map", "", servers>> ELSE settings[i]]
    ELSE Append(settings, <<config_key, "map", "", servers>>)

\* update_config_file: the destination and its backup after the call, the
\* counts it reports, and whether it raised.  A value under config_key that is
\* not a mapping makes the loop raise TypeError, after the backup and before
\* the write (transformed_data is never empty: the registry is not).
update_config_file(dest, old_backup, transformed_data, config_key, prune) ==
    LET backup == BackupOf(dest, old_backup)
        settings == ReadSettings(dest)
        stored == StoredUnder(settings, config_key)
        merged == AddUpdate(transformed_data, 1,
                            [servers |-> stored[4], added |-> 0, updated |-> 0])
        kept == PruneServers(merged.servers, transformed_data, prune)
    IN  IF stored[2] # "map"
        THEN [raised |-> TRUE, file |-> dest, backup |-> backup, report |-> <<0, 0, 0>>]
        ELSE [raised |-> FALSE,
              file |-> JsonFile(SetStorage(settings, config_key, kept)),
              backup |-> backup,
              report |-> <<merged.added, merged.updated,
                           Len(merged.servers) - Len(kept)>>]

\* ------------------------------------------------------------ text-sectioned target
RECURSIVE RStrip(_)
\* The lines left of a text by str.rstrip() (str.strip() of a block that starts
\* with a header): trailing blank lines go.
RStrip(lines) ==
    IF lines # <<>> /\ lines[Len(lines)] = Blank
    THEN RStrip(SubSeq(lines, 1, Len(lines) - 1))
    ELSE lines

HdrIndexes(lines) == {i \in DOMAIN lines : IsHdr(lines[i])}

\* The names server_pattern finds in the text.
ExistingNames(lines) == {lines[i][2] : i \in HdrIndexes(lines)}

\* Where the match that starts at header line i ends: the lookahead
\* (?=\[mcp_servers\.|$) stops at the next entry header or at the end of
\* the text.
SpanEnd(lines, i) ==
    LET later == {j \in HdrIndexes(lines) : j > i}
    IN  IF later = {} THEN Len(lines) + 1
        ELSE CHOOSE j \in later : \A k \in later : j <= k

\* existing_servers[name]: the block of the last match for the name, its header
\* rewritten in the quoted form, stripped.
ExistingBlock(lines, name) ==
    LET own == {i \in HdrIndexes(lines) : lines[i][2] = name}
        i == CHOOSE j \in own : \A k \in own : k <= j
    IN  RStrip(<<(<<"hdr", name, "q">>)>> \o SubSeq(lines, i + 1, SpanEnd(lines, i) - 1))

RECURSIVE SplitBlocks(_, _, _)
\* transformed_data.split("\n\n"), each block stripped and the empty ones
\* dropped: the text is cut at its inner empty lines.  i is the line looked at,
\* cur the block being collected.
SplitBlocks(lines, i, cur) ==
    IF i > Len(lines)
    THEN IF RStrip(cur) = <<>> THEN <<>> ELSE <<RStrip(cur)>>
    ELSE IF lines[i] = Blank /\ 1 < i /\ i < Len(lines)
         THEN (IF RStrip(cur) = <<>> THEN <<>> ELSE <<RStrip(cur)>>)
                  \o SplitBlocks(lines, i + 1, <<>>)
         ELSE SplitBlocks(lines, i + 1,
                          IF cur = <<>> /\ lines[i] = Blank THEN cur
                          ELSE Append(cur, lines[i]))

\* The blocks of the source whose first line matches the header pattern.
SourceBlocks(transformed_data) ==
    LET Headed(block) == IsHdr(block[1])
    IN  SelectSeq(SplitBlocks(transformed_data, 1, <<>>), Headed)

RECURSIVE Rebuild(_, _, _, _, _, _)
RebuildSkipsToNextEntry(lines, i, skip_section, updated, source_server_names, prune) ==
    IF i > Len(lines) THEN <<>>
    ELSE LET line == lines[i]
         IN  IF IsHdr(line)
             THEN IF line[2] \in updated \/ (prune /\ line[2] \notin source_server_names)
                  THEN Rebuild(lines, i + 1, TRUE, updated, source_server_names, prune)
                  ELSE <<line>> \o Rebuild(lines, i + 1, FALSE, updated,
                                           source_server_names, prune)
             ELSE (IF skip_section THEN <<>> ELSE <<line>>)
                      \o Rebuild(lines, i + 1, skip_section, updated,
                                 source_server_names, prune)

\* filtered_lines: the loop over the lines of the existing text, from line i on.
Rebuild(lines, i, skip_section, updated, source_server_names, prune) ==
    IF i > Len(lines) THEN <<>>
    ELSE LET line == lines[i]
         IN  IF IsHdr(line)
             THEN IF line[2] \in updated \/ (prune /\ line[2] \notin source_server_names)
                  THEN Rebuild(lines, i + 1, TRUE, updated, source_server_names, prune)
                  ELSE <<line>> \o Rebuild(lines, i + 1, FALSE, updated,
                                           source_server_names, prune)
             ELSE IF IsTbl(line)
                  THEN <<line>> \o Rebuild(lines, i + 1, FALSE, updated,
                                           source_server_names, prune)
                  ELSE (IF skip_section THEN <<>> ELSE <<line>>)
                           \o Rebuild(lines, i + 1, skip_section, updated,
                                      source_server_names, prune)

RECURSIVE AppendBlocks(_, _)
\* f.write("\n\n" + block) for each block in turn.
AppendBlocks(blocks, i) ==
    IF i > Len(blocks) THEN <<>>
    ELSE <<Blank>> \o blocks[i] \o AppendBlocks(blocks, i + 1)

\* "\n".join(filtered_lines).rstrip(), as lines: the empty text is one empty line.
JoinRStrip(filtered_lines) ==
    IF RStrip(filtered_lines) = <<>> THEN <<Blank>> ELSE RStrip(filtered_lines)

\* update_toml_config_file: the destination and its backup after the call and
\* the counts it reports.
update_toml_config_file(dest, old_backup, transformed_data, prune) ==
    LET backup == BackupOf(dest, old_backup)
        existing_content == IF dest.exists THEN dest.text ELSE <<Blank>>
        existing == ExistingNames(existing_content)
        blocks == SourceBlocks(transformed_data)
        source_server_names == {blocks[i][1][2] : i \in DOMAIN blocks}
        IsUpdated(block) ==
            /\ block[1][2] \in existing
            /\ ExistingBlock(existing_content, block[1][2]) # block
        IsNew(block) == block[1][2] \notin existing
        updated_blocks == SelectSeq(blocks, IsUpdated)
        new_blocks == SelectSeq(blocks, IsNew)
        removed == IF prune THEN existing \ source_server_names ELSE {}
        filtered_lines ==
            Rebuild(existing_content, 1, FALSE,
                    {updated_blocks[i][1][2] : i \in DOMAIN updated_blocks},
                    source_server_names, prune)
    IN  [raised |-> FALSE,
         file |-> TextFile(JoinRStrip(filtered_lines)
                              \o AppendBlocks(updated_blocks, 1)
                              \o AppendBlocks(new_blocks, 1)),
         backup |-> backup,
         report |-> <<Len(new_blocks), Len(updated_blocks), Cardinality(removed)>>]

\* ------------------------------------------------------------ registry
\* Whether Python takes the value of a document item for true.
Truthy(item) == IF item[2] = "map" THEN item[4] # <<>> ELSE item[3] # ""

LoadRegistryAcceptsEmpty(source) ==
    IF ~source.exists \/ source.kind # "doc"
    THEN [ok |-> FALSE, servers |-> <<>>]
    ELSE IF ~HasKey(source.doc, "mcpServers")
         THEN [ok |-> FALSE, servers |-> <<>>]
         ELSE IF ItemOf(source.doc, "mcpServers")[2] # "map"
              THEN [ok |-> FALSE, servers |-> <<>>]
              ELSE [ok |-> TRUE, servers |-> ItemOf(source.doc, "mcpServers")[4]]

\* The head of sync_mcp_configs: source_servers, or the early return on a
\* missing or undecodable file (an empty file does not decode), on a missing or
\* false "mcpServers" value, and on one that is not a dict.
LoadRegistry(source) ==
    IF ~source.exists \/ source.kind # "doc"
    THEN [ok |-> FALSE, servers |-> <<>>]
    ELSE IF ~HasKey(source.doc, "mcpServers") \/ ~Truthy(ItemOf(source.doc, "mcpServers"))
         THEN [ok |-> FALSE, servers |-> <<>>]
         ELSE IF ItemOf(source.doc, "mcpServers")[2] # "map"
              THEN [ok |-> FALSE, servers |-> <<>>]
              ELSE [ok |-> TRUE, servers |-> ItemOf(source.doc, "mcpServers")[4]]

\* ------------------------------------------------------------ inputs
Stdio1 == <<(<<"type", "stdio">>)>>

Stdio2 == << <<"type", "stdio">>, <<"command", "x">> >>

Http1 == << <<"type", "http">>, <<"url", "u">> >>

Http2 == << <<"type", "http">>, <<"url", "u">>, <<"httpUrl", "h">> >>

HttpG == << <<"httpUrl", "u">>, <<"type", "http">> >>

Names == {"a", "b"}

\* The registries the runs are given: one or two named entries.
Registries ==
    { <<(<<"a", Stdio1>>)>>,
      << <<"a", Stdio2>>, <<"b", Stdio1>> >>,
      << <<"b", Http1>>, <<"a", Stdio1>> >>,
      <<(<<"a", Http2>>)>> }

SourceOf(registry) == JsonFile(<<(<<"mcpServers", "map", "", registry>>)>>)

ValidSources == {SourceOf(r) : r \in Registries}

\* Source files the run must refuse: missing, undecodable, empty, without the
\* key, and with an empty mapping, a list (empty or not) or a string under it.
InvalidSources ==
    { NoFile, GarbageFile, EmptyFile, JsonFile(<<>>),
      JsonFile(<<(<<"mcpServers", "map", "", <<>>>>)>>),
      JsonFile(<<(<<"mcpServers", "list", "", <<>>>>)>>),
      JsonFile(<<(<<"mcpServers", "list", "x", <<>>>>)>>),
      JsonFile(<<(<<"mcpServers", "str", "x", <<>>>>)>>) }

Theme == <<"theme", "str", "dark", <<>>>>

Lang == <<"lang", "str", "en", <<>>>>

\* Mappings a structured target may hold under its key: up to one entry per name.
ExistingEntries == {Stdio1, Stdio2, HttpG}

ExistingMaps ==
    {<<>>}
        \cup {<<(<<n, e>>)>> : n \in Names, e \in ExistingEntries}
        \cup {d \in {<< <<n, e>>, <<m, f>> >> :
                        n \in Names, m \in Names,
                        e \in ExistingEntries, f \in ExistingEntries} : d[1][1] # d[2][1]}

\* The contents of one structured target: empty, undecodable, or a document with
\* or without other keys around a mapping (or a list) under the target's key.
DeepJson(config_key) ==
    {EmptyFile, GarbageFile}
        \cup {JsonFile(before \o stored \o after) :
                 before \in {<<>>, <<Theme>>},
                 stored \in {<<>>, <<(<<config_key, "list", "x", <<>>>>)>>}
                            \cup {<<(<<config_key, "map", "", m>>)>> : m \in ExistingMaps},
                 after \in {<<>>, <<Lang>>}}

Alphabet ==
    { <<"hdr", "a", "q">>, <<"hdr", "b", "b">>,
      <<"tbl", "other", "">>, <<"tbl", "more", "">>,
      <<"kv", "type", "stdio">>, <<"kv", "command", "x">>, Blank }

\* The contents of the text-sectioned target: every text of 1..MaxLines lines.
DeepToml == UNION {[1..n -> Alphabet] : n \in 1..MaxLines}

WideJson(config_key) ==
    { NoFile,
      JsonFile(<< Theme, <<config_key, "map", "", <<(<<"b", Stdio2>>)>>>> >>),
      JsonFile(<<(<<config_key, "list", "x", <<>>>>)>>) }

WideToml == {NoFile, TextFile(<< <<"hdr", "b", "b">>, <<"kv", "type", "stdio">> >>)}

WideContents(t) ==
    IF ConfigOf(t).format = "toml" THEN WideToml ELSE WideJson(ConfigOf(t).key)

\* Every mix of the five targets' contents.
WideFs ==
    { [claude_code |-> c1, gemini_cli |-> c2, vscode |-> c3, vscode_wsl |-> c4, codex |-> c5] :
        c1 \in WideContents("claude_code"), c2 \in WideContents("gemini_cli"),
        c3 \in WideContents("vscode"), c4 \in WideContents("vscode_wsl"),
        c5 \in WideContents("codex") }

DeepContents(t) ==
    IF ConfigOf(t).format = "toml" THEN {TextFile(l) : l \in DeepToml}
    ELSE DeepJson(ConfigOf(t).key)

\* ------------------------------------------------------------ state
VARIABLES
    fs,        \* the file at each target's path
    backup,    \* the file at each target's <path>.backup
    src,       \* the file at the source path
    srcPath,   \* the target whose path is the source path, or "elsewhere"
    prune,     \* the --prune flag
    pc,        \* where the run is: start, loop, done, aborted, crashed; merge
    idx,       \* the position in TOOL_CONFIGS of the target in turn
    run,       \* the number of runs started
    outcome,   \* what the current run did with each target
    report,    \* <<added, updated, removed>> the current run printed for each target
    pre        \* fs when the current run started

vars == <<fs, backup, src, srcPath, prune, pc, idx, run, outcome, report, pre>>

Pending == [t \in Tools |-> "pending"]

NoReport == [t \in Tools |-> <<0, 0, 0>>]

\* A first run of sync_mcp_configs: any source file, any mix of targets, no
\* backup yet.  A target at the source path holds the source.
Init ==
    /\ src \in ValidSources \cup InvalidSources
    /\ srcPath \in {"elsewhere", "claude_code"}
    /\ prune \in BOOLEAN
    /\ fs \in {[t \in Tools |-> IF t = srcPath THEN src ELSE f[t]] : f \in WideFs}
    /\ backup = [t \in Tools |-> NoFile]
    /\ pc = "start"
    /\ idx = 1
    /\ run = 1
    /\ outcome = Pending
    /\ report = NoReport
    /\ pre = fs

\* One target and a loaded registry: update_config_file or
\* update_toml_config_file is about to be called on any content of the target.
InitMerge ==
    /\ src \in ValidSources
    /\ srcPath = "elsewhere"
    /\ prune \in BOOLEAN
    /\ idx \in DOMAIN TOOL_CONFIGS
    /\ \E c \in DeepContents(TOOL_CONFIGS[idx].name) :
          fs = [t \in Tools |-> IF t = TOOL_CONFIGS[idx].name THEN c ELSE NoFile]
    /\ backup = [t \in Tools |-> NoFile]
    /\ pc = "merge"
    /\ run = 0
    /\ outcome = Pending
    /\ report = NoReport
    /\ pre = fs

\* ------------------------------------------------------------ the run
Cur == TOOL_CONFIGS[idx].name

InLoop == pc = "loop" /\ idx \in DOMAIN TOOL_CONFIGS

\* target_path == source_path
IsSourcePath(t) == srcPath = t

TargetExistsAlways(file) == TRUE

\* target_path.exists()
TargetExists(file) == file.exists

\* The transformation and the update the loop body calls for target t.
SyncResult(t) ==
    LET source_servers == LoadRegistry(src).servers
    IN  IF ConfigOf(t).format = "toml"
        THEN update_toml_config_file(fs[t], backup[t],
                                     transform_for_codex(source_servers), prune)
        ELSE update_config_file(fs[t], backup[t],
                                transform_json_format(source_servers, t),
                                ConfigOf(t).key, prune)

\* The source loads and validates: the loop over TOOL_CONFIGS starts.
LoadSource ==
    /\ pc = "start"
    /\ LoadRegistry(src).ok
    /\ pc' = "loop"
    /\ UNCHANGED <<fs, backup, src, srcPath, prune, idx, run, outcome, report, pre>>

\* The source does not load or validate: the error is printed and the run returns.
AbortRun ==
    /\ pc = "start"
    /\ ~LoadRegistry(src).ok
    /\ pc' = "aborted"
    /\ UNCHANGED <<fs, backup, src, srcPath, prune, idx, run, outcome, report, pre>>

\* The target is the source file: "Skipping sync for ..." and on to the next.
SkipSource ==
    /\ InLoop
    /\ IsSourcePath(Cur)
    /\ outcome' = [outcome EXCEPT ![Cur] = "skipped_source"]
    /\ idx' = idx + 1
    /\ UNCHANGED <<fs, backup, src, srcPath, prune, pc, run, report, pre>>

\* The target's file does not exist: on to the next, nothing printed.
SkipMissing ==
    /\ InLoop
    /\ ~IsSourcePath(Cur)
    /\ ~TargetExists(fs[Cur])
    /\ outcome' = [outcome EXCEPT ![Cur] = "skipped_missing"]
    /\ idx' = idx + 1
    /\ UNCHANGED <<fs, backup, src, srcPath, prune, pc, run, report, pre>>

\* The target is backed up, merged and written.
SyncTarget ==
    /\ InLoop
    /\ ~IsSourcePath(Cur)
    /\ TargetExists(fs[Cur])
    /\ ~SyncResult(Cur).raised
    /\ fs' = [fs EXCEPT ![Cur] = SyncResult(Cur).file]
    /\ backup' = [backup EXCEPT ![Cur] = SyncResult(Cur).backup]
    /\ report' = [report EXCEPT ![Cur] = SyncResult(Cur).report]
    /\ outcome' = [outcome EXCEPT ![Cur] = "synced"]
    /\ idx' = idx + 1
    /\ UNCHANGED <<src, srcPath, prune, pc, run, pre>>

\* The update raises on the value under the target's key, after the backup:
\* nothing in the loop catches it, and sync_mcp_configs ends with the exception.
SyncRaises ==
    /\ InLoop
    /\ ~IsSourcePath(Cur)
    /\ TargetExists(fs[Cur])
    /\ SyncResult(Cur).raised
    /\ backup' = [backup EXCEPT ![Cur] = SyncResult(Cur).backup]
    /\ outcome' = [outcome EXCEPT ![Cur] = "raised"]
    /\ pc' = "crashed"
    /\ UNCHANGED <<fs, src, srcPath, prune, idx, run, report, pre>>

\* shutil.copy2 raises OSError (the target cannot be read, the backup cannot be
\* written): nothing in the loop catches it either.
SyncIOError ==
    /\ InLoop
    /\ ~IsSourcePath(Cur)
    /\ TargetExists(fs[Cur])
    /\ outcome' = [outcome EXCEPT ![Cur] = "raised"]
    /\ pc' = "crashed"
    /\ UNCHANGED <<fs, backup, src, srcPath, prune, idx, run, report, pre>>

\* The loop is over: "Sync complete."
Finish ==
    /\ pc = "loop"
    /\ idx > Len(TOOL_CONFIGS)
    /\ pc' = "done"
    /\ UNCHANGED <<fs, backup, src, srcPath, prune, idx, run, outcome, report, pre>>

\* The command is run again with the same source and flag, the files as the
\* run before left them.
Rerun ==
    /\ pc = "done"
    /\ run < MaxRuns
    /\ pc' = "start"
    /\ idx' = 1
    /\ run' = run + 1
    /\ outcome' = Pending
    /\ report' = NoReport
    /\ pre' = fs
    /\ UNCHANGED <<fs, backup, src, srcPath, prune>>

\* One call of the update on the one target, and again on what it wrote.
Merge ==
    /\ pc = "merge"
    /\ run < MaxRuns
    /\ ~SyncResult(Cur).raised
    /\ fs' = [fs EXCEPT ![Cur] = SyncResult(Cur).file]
    /\ backup' = [backup EXCEPT ![Cur] = SyncResult(Cur).backup]
    /\ report' = [report EXCEPT ![Cur] = SyncResult(Cur).report]
    /\ outcome' = [outcome EXCEPT ![Cur] = "synced"]
    /\ run' = run + 1
    /\ pre' = fs
    /\ UNCHANGED <<src, srcPath, prune, pc, idx>>

\* The call raises on the value under the target's key.
MergeRaises ==
    /\ pc = "merge"
    /\ run < MaxRuns
    /\ SyncResult(Cur).raised
    /\ backup' = [backup EXCEPT ![Cur] = SyncResult(Cur).backup]
    /\ outcome' = [outcome EXCEPT ![Cur] = "raised"]
    /\ pc' = "crashed"
    /\ run' = run + 1
    /\ pre' = fs
    /\ UNCHANGED <<fs, src, srcPath, prune, idx, report>>

Next ==
    \/ LoadSource
    \/ AbortRun
    \/ SkipSource
    \/ SkipMissing
    \/ SyncTarget
    \/ SyncRaises
    \/ SyncIOError
    \/ Finish
    \/ Rerun

NextMerge == Merge \/ MergeRaises

Spec == Init /\ [][Next]_vars

SpecMerge == InitMerge /\ [][NextMerge]_vars

\* ------------------------------------------------------------ what the claims speak of
Pos(t) == CHOOSE i \in DOMAIN TOOL_CONFIGS : TOOL_CONFIGS[i].name = t

\* The registry of the run.
Registry == ItemOf(src.doc, "mcpServers")[4]

\* The entry names a target file holds: the keys of the mapping under the
\* target's key, or the names of the entry headers of the text.
EntryNames(t, file) ==
    IF ~file.exists THEN {}
    ELSE IF ConfigOf(t).format = "toml" THEN ExistingNames(file.text)
    ELSE IF file.kind = "doc" /\ HasKey(file.doc, ConfigOf(t).key)
              /\ ItemOf(file.doc, ConfigOf(t).key)[2] = "map"
         THEN Keys(ItemOf(file.doc, ConfigOf(t).key)[4])
         ELSE {}

\* The names of the registry a target is to hold: those of type "stdio" for the
\* text-sectioned target, all of them for a structured one.
Eligible(t) ==
    IF ConfigOf(t).format = "toml"
    THEN {Registry[i][1] : i \in {j \in DOMAIN Registry :
                                     GetOr(Registry[j][2], "type", "") = "stdio"}}
    ELSE Keys(Registry)

\* The top-level items of a document other than the one under the key.
OtherItems(doc, config_key) ==
    LET Other(item) == item[1] # config_key
    IN  SelectSeq(doc, Other)

\* The lines of the unrelated table blocks of a text, in order: a block runs
\* from another table's header to the line before the next header of any
\* kind; its empty lines are left out.
UnrelatedLines(lines) ==
    LET InBlock(i) ==
            \E h \in 1..i :
                /\ IsTbl(lines[h])
                /\ \A k \in (h + 1)..i : ~IsHdr(lines[k]) /\ ~IsTbl(lines[k])
        RECURSIVE Pick(_)
        Pick(i) ==
            IF i > Len(lines) THEN <<>>
            ELSE (IF InBlock(i) /\ lines[i] # Blank THEN <<lines[i]>> ELSE <<>>)
                     \o Pick(i + 1)
    IN  Pick(1)

\* ------------------------------------------------------------ C1
\* C1: per-target failure isolation.  When the run has ended, every target
\* that exists and is not the source file has been processed: it was synced, or
\* its failure was recorded and the loop went on to the targets after it.
C1_FailureIsolated ==
    pc \in {"done", "crashed"} =>
        \A t \in Tools :
            (~IsSourcePath(t) /\ pre[t].exists) => outcome[t] \in {"synced", "raised"}

\* ------------------------------------------------------------ C2
\* C2: idempotence.  A second run on what the first run wrote, with the same
\* registry and flag, reports no change (0 added, 0 updated, 0 removed) and
\* leaves the target's bytes as the first run wrote them.
C2_Idempotent ==
    (pc = "merge" /\ run >= 2 /\ outcome[Cur] = "synced") =>
        report[Cur] = <<0, 0, 0>> /\ fs[Cur] = pre[Cur]

\* ------------------------------------------------------------ C3
\* C3: additive by default.  After a run without pruning, every entry name the
\* target held before the run is still in the target, in both adapters.
C3_AdditiveByDefault ==
    (pc = "merge" /\ ~prune /\ outcome[Cur] = "synced") =>
        EntryNames(Cur, pre[Cur]) \subseteq EntryNames(Cur, fs[Cur])

\* The text-sectioned target held "b", the registry's "b" is not of type
\* stdio: a run without pruning has kept it.
C3_Witness ==
    /\ pc = "merge" /\ ~prune /\ Cur = "codex" /\ outcome[Cur] = "synced"
    /\ "b" \in EntryNames(Cur, pre[Cur])
    /\ HasKey(Registry, "b") /\ "b" \notin Eligible(Cur)
    /\ report[Cur][1] > 0
    /\ "b" \in EntryNames(Cur, fs[Cur])

\* ------------------------------------------------------------ C4
\* C4: prune correctness.  After a run with pruning the target's entry names
\* are exactly the eligible names of the registry, and the run counts as
\* removed every name the target held that is not eligible.
C4_PruneExact ==
    (pc = "merge" /\ prune /\ outcome[Cur] = "synced") =>
        /\ EntryNames(Cur, fs[Cur]) = Eligible(Cur)
        /\ report[Cur][3] = Cardinality(EntryNames(Cur, pre[Cur]) \ Eligible(Cur))

\* The text-sectioned target held "a", which the registry has as a non-stdio
\* entry: the pruning run removed it.
C4_Witness ==
    /\ pc = "merge" /\ prune /\ Cur = "codex" /\ outcome[Cur] = "synced"
    /\ "a" \in EntryNames(Cur, pre[Cur])
    /\ HasKey(Registry, "a") /\ "a" \notin Eligible(Cur)
    /\ "a" \notin EntryNames(Cur, fs[Cur])
    /\ report[Cur][3] = 1

\* ------------------------------------------------------------ C5
\* C5: backup invariant.  A target the run has written has a backup file that
\* holds what the target held when the run began, whatever backup an earlier
\* run left; a target that did not exist gets no backup.
C5_BackupHoldsPrior ==
    \A t \in Tools :
        /\ outcome[t] = "synced" => (backup[t].exists /\ backup[t] = pre[t])
        /\ ~pre[t].exists => ~backup[t].exists

\* A second run has written a structured target: its backup now holds what the
\* first run wrote (entry "a", which no target held at first), not the backup
\* the first run took.
C5_Witness ==
    /\ run = 2 /\ outcome["gemini_cli"] = "synced"
    /\ backup["gemini_cli"].exists
    /\ "a" \in EntryNames("gemini_cli", backup["gemini_cli"])
    /\ ~fs["vscode"].exists /\ ~backup["vscode"].exists

\* ------------------------------------------------------------ C6
\* C6: structured-target frame.  After the write of a structured target whose
\* file held a document, the top-level items other than the one under the
\* target's key are the items the document had, with the same values.
C6_OtherKeysKept ==
    (pc = "merge" /\ ConfigOf(Cur).format = "json" /\ outcome[Cur] = "synced"
        /\ pre[Cur].kind = "doc") =>
        /\ fs[Cur].kind = "doc"
        /\ OtherItems(fs[Cur].doc, ConfigOf(Cur).key) = OtherItems(pre[Cur].doc, ConfigOf(Cur).key)

\* A document with a key before and a key after the entries, and a run that
\* changed the entries.
C6_Witness ==
    /\ pc = "merge" /\ ConfigOf(Cur).format = "json" /\ outcome[Cur] = "synced"
    /\ pre[Cur].kind = "doc"
    /\ OtherItems(pre[Cur].doc, ConfigOf(Cur).key) = <<Theme, Lang>>
    /\ report[Cur][1] > 0 /\ report[Cur][3] > 0
    /\ fs[Cur] # pre[Cur]

\* ------------------------------------------------------------ C7
\* C7: unrelated content of the text-sectioned target.  After the merge the
\* lines of the unrelated table blocks are the ones the text had, unmodified
\* and in the same order.
C7_UnrelatedKept ==
    (pc = "merge" /\ Cur = "codex" /\ outcome[Cur] = "synced") =>
        UnrelatedLines(fs[Cur].text) = UnrelatedLines(pre[Cur].text)

\* An entry between two unrelated tables was rewritten or removed.
C7_Witness ==
    /\ pc = "merge" /\ Cur = "codex" /\ outcome[Cur] = "synced"
    /\ Len(pre[Cur].text) >= 4
    /\ pre[Cur].text[1] = <<"tbl", "other", "">>
    /\ pre[Cur].text[2] = <<"hdr", "a", "q">>
    /\ pre[Cur].text[3] = <<"kv", "command", "x">>
    /\ pre[Cur].text[4] = <<"tbl", "more", "">>
    /\ report[Cur][2] + report[Cur][3] > 0

\* ------------------------------------------------------------ C8
\* The source is missing, undecodable, has no "mcpServers" value, or has an
\* empty one or one that is not a mapping.
FatalSource ==
    \/ ~src.exists
    \/ src.kind # "doc"
    \/ ~HasKey(src.doc, "mcpServers")
    \/ ItemOf(src.doc, "mcpServers")[2] # "map"
    \/ ItemOf(src.doc, "mcpServers")[4] = <<>>

\* C8: a fatal registry error precedes every side effect.  With such a source
\* the run never reaches a target: no target is looked at, no file and no
\* backup is created or changed.
C8_AbortBeforeTargets ==
    FatalSource =>
        /\ pc \in {"start", "aborted"}
        /\ outcome = Pending
        /\ fs = pre
        /\ \A t \in Tools : ~backup[t].exists

\* The run has aborted on a non-empty list under "mcpServers" while a target
\* exists.
C8_Witness ==
    /\ pc = "aborted"
    /\ src.kind = "doc" /\ HasKey(src.doc, "mcpServers")
    /\ ItemOf(src.doc, "mcpServers")[2] = "list" /\ ItemOf(src.doc, "mcpServers")[3] # ""
    /\ fs["gemini_cli"].exists

\* ------------------------------------------------------------ C9
\* C9: skipped targets.  When the target in turn is the source file or does
\* not exist, the step the run takes is the skip: it is recorded as skipped
\* (the source) or passed silently (a missing file), no file and no backup is
\* created or changed, and the loop goes on with the next target.
C9_SkipHasNoEffect ==
    [][(InLoop /\ (srcPath = Cur \/ ~fs[Cur].exists)) =>
          /\ outcome' = [outcome EXCEPT ![Cur] =
                            IF srcPath = Cur THEN "skipped_source" ELSE "skipped_missing"]
          /\ fs' = fs
          /\ backup' = backup
          /\ pc' = "loop"
          /\ idx' = idx + 1]_vars

\* The source file was skipped, a missing target was skipped, and the target
\* after them was synced.
C9_Witness ==
    /\ outcome["claude_code"] = "skipped_source"
    /\ outcome["gemini_cli"] = "skipped_missing"
    /\ outcome["vscode"] = "synced"
    /\ ~fs["gemini_cli"].exists /\ ~backup["gemini_cli"].exists
    /\ ~backup["claude_code"].exists

\* ------------------------------------------------------------ C10
\* What the claim asks of one written entry: for gemini_cli and type "http",
\* httpUrl holds the input's url, there is no url, and every other field is
\* the input's; otherwise the entry is the input.
TransformedAsClaimed(tool_name, config, written) ==
    IF tool_name = "gemini_cli" /\ GetOr(config, "type", "") = "http" /\ HasKey(config, "url")
    THEN /\ GetOr(written, "httpUrl", "") = GetOr(config, "url", "")
         /\ ~HasKey(written, "url")
         /\ \A k \in Keys(config) \ {"url", "httpUrl"} :
               HasKey(written, k) /\ GetOr(written, k, "") = GetOr(config, k, "")
         /\ Keys(written) \subseteq (Keys(config) \ {"url"}) \cup {"httpUrl"}
    ELSE DictEq(written, config)

\* C10: transformation correctness.  Every entry a structured target is
\* given is the registry's entry, but for gemini_cli and type "http", where
\* url is renamed to httpUrl.
C10_TransformCorrect ==
    (pc = "merge" /\ ConfigOf(Cur).format = "json" /\ outcome[Cur] = "synced") =>
        \A i \in DOMAIN Registry :
            /\ Registry[i][1] \in EntryNames(Cur, fs[Cur])
            /\ TransformedAsClaimed(Cur, Registry[i][2],
                    ItemOf(ItemOf(fs[Cur].doc, ConfigOf(Cur).key)[4], Registry[i][1])[2])

\* ------------------------------------------------------------ C12
\* Where an entry's block ends as the claim has it: at the next header of any
\* table, or at the end of the text.
SpanToAnyHeader(lines, i) ==
    LET later == {j \in DOMAIN lines : j > i /\ (IsHdr(lines[j]) \/ IsTbl(lines[j]))}
    IN  IF later = {} THEN Len(lines) + 1
        ELSE CHOOSE j \in later : \A k \in later : j <= k

\* An existing entry's own header and field lines: its block up to the next
\* header of any table, stripped.
OwnBlock(lines, name) ==
    LET own == {i \in HdrIndexes(lines) : lines[i][2] = name}
        i == CHOOSE j \in own : \A k \in own : k <= j
    IN  RStrip(<<(<<"hdr", name, "q">>)>>
                   \o SubSeq(lines, i + 1, SpanToAnyHeader(lines, i) - 1))

\* The block the run renders for an entry of the registry.
RenderedBlock(name) == RStrip(ServerLines(name, ItemOf(Registry, name)[2]))

\* C12: text-section span boundary.  The entries the run reports as updated are
\* the eligible entries of the target whose own header and field lines, read up
\* to the next header of any table, differ from the rendered block: an entry
\* whose own lines equal the rendered block is unchanged, also when an
\* unrelated table follows it.
C12_SpanStopsAtAnyTable ==
    (pc = "merge" /\ Cur = "codex" /\ outcome[Cur] = "synced") =>
        report[Cur][2] =
            Cardinality({n \in Eligible(Cur) \cap ExistingNames(pre[Cur].text) :
                            OwnBlock(pre[Cur].text, n) # RenderedBlock(n)})

\* ------------------------------------------------------------ the full-rebuild script
\* key_mappings of a tool of mcp-sync.py, as <<source_key, target_key>> pairs
\* in order: every tool of its TOOL_CONFIGS has the same four.
key_mappings ==
    << <<"type", "type">>, <<"command", "command">>, <<"args", "args">>, <<"env", "env">> >>

RECURSIVE MapKnownKeys(_, _, _, _)
\* The loop over key_mappings.items() of the rebuild script's
\* transform_json_format, from mapping i on: a key of the mapping the config
\* holds is copied under its target key, every other key of the config is left out.
MapKnownKeys(config, mappings, i, server_config) ==
    IF i > Len(mappings) THEN server_config
    ELSE MapKnownKeys(config, mappings, i + 1,
             IF HasKey(config, mappings[i][1])
             THEN DictSet(server_config, mappings[i][2], GetOr(config, mappings[i][1], ""))
             ELSE server_config)

\* transform_json_format(source_servers, key_mappings) of the rebuild script.
rebuild_transform_json_format(source_servers, mappings) ==
    [i \in DOMAIN source_servers |->
        <<source_servers[i][1], MapKnownKeys(source_servers[i][2], mappings, 1, <<>>)>>]

\* One server's lines in the rebuild script: the bare header, a line per mapped
\* key the config holds, an empty line.
RebuildServerLines(name, config, mappings) ==
    LET mapped == MapKnownKeys(config, mappings, 1, <<>>)
    IN  <<(<<"hdr", name, "b">>)>>
            \o [i \in DOMAIN mapped |-> <<"kv", mapped[i][1], mapped[i][2]>>]
            \o <<Blank>>

RECURSIVE RebuildCodexLines(_, _, _)
\* toml_lines of the rebuild script's transform_for_codex, from server i on:
\* every server, whatever its type.
RebuildCodexLines(source_servers, mappings, i) ==
    IF i > Len(source_servers) THEN <<>>
    ELSE RebuildServerLines(source_servers[i][1], source_servers[i][2], mappings)
             \o RebuildCodexLines(source_servers, mappings, i + 1)

\* "\n".join(toml_lines), as the lines of the joined text.
rebuild_transform_for_codex(source_servers, mappings) ==
    LET toml_lines == RebuildCodexLines(source_servers, mappings, 1)
    IN  IF toml_lines = <<>> THEN <<Blank>> ELSE toml_lines

RebuildReplacesDocument(dest, old_backup, transformed_data, config_key) ==
    [file |-> JsonFile(<<(<<config_key, "map", "", transformed_data>>)>>),
     backup |-> BackupOf(dest, old_backup)]

\* update_config_file of the rebuild script: the backup, the read, then
\* settings[config_key] = transformed_data and the dump.
rebuild_update_config_file(dest, old_backup, transformed_data, config_key) ==
    [file |-> JsonFile(SetStorage(ReadSettings(dest), config_key, transformed_data)),
     backup |-> BackupOf(dest, old_backup)]

RECURSIVE DropServerSections(_, _, _)
\* filtered_lines of the rebuild script: a line that starts with
\* "[mcp_servers." is dropped and starts the skipping, the header of another
\* table ends it.
DropServerSections(lines, i, skip_section) ==
    IF i > Len(lines) THEN <<>>
    ELSE IF IsHdr(lines[i]) THEN DropServerSections(lines, i + 1, TRUE)
    ELSE IF IsTbl(lines[i]) THEN <<lines[i]>> \o DropServerSections(lines, i + 1, FALSE)
    ELSE (IF skip_section THEN <<>> ELSE <<lines[i]>>)
             \o DropServerSections(lines, i + 1, skip_section)

\* The line "# MCP Servers Configuration".
SectionComment == <<"comment", "MCP Servers Configuration", "">>

\* update_toml_config_file of the rebuild script: the backup, the text without
\* its server sections and trailing empty lines, a separator if anything is
\* left, the comment line and the lines of transformed_data, joined as they are.
rebuild_update_toml_config_file(dest, old_backup, transformed_data) ==
    LET existing_content == IF dest.exists THEN dest.text ELSE <<Blank>>
        filtered_lines == RStrip(DropServerSections(existing_content, 1, FALSE))
    IN  [file |-> TextFile((IF filtered_lines # <<>> THEN filtered_lines \o <<Blank>>
                            ELSE <<>>)
                               \o <<SectionComment>> \o transformed_data),
         backup |-> BackupOf(dest, old_backup)]

\* The transformation and the update the rebuild script's loop body calls for
\* target t on a file and its backup.
RebuildResult(t, file, old_backup) ==
    LET source_servers == LoadRegistry(src).servers
    IN  IF ConfigOf(t).format = "toml"
        THEN rebuild_update_toml_config_file(file, old_backup,
                 rebuild_transform_for_codex(source_servers, key_mappings))
        ELSE rebuild_update_config_file(file, old_backup,
                 rebuild_transform_json_format(source_servers, key_mappings),
                 ConfigOf(t).key)

\* ------------------------------------------------------------ rebuild and merge from an empty target
StdioRev == << <<"command", "x">>, <<"type", "stdio">> >>

StdioFull ==
    << <<"type", "stdio">>, <<"command", "x">>, <<"args", "g">>, <<"env", "e">> >>

EntryConfigs == {Stdio1, Stdio2, StdioRev, StdioFull, Http1, Http2}

\* The registries both scripts are given: one or two named entries.
RebuildRegistries ==
    { <<(<<n, c>>)>> : n \in Names, c \in EntryConfigs }
        \cup { r \in { << <<n, c>>, <<m, d>> >> :
                          n \in Names, m \in Names, c \in EntryConfigs, d \in EntryConfigs } :
                 r[1][1] # r[2][1] }

\* A target that holds no entry: an empty file, an empty document, a document
\* with an empty mapping under the key or with other keys only; an empty text
\* or a text of another table only.
EmptyContents(t) ==
    IF ConfigOf(t).format = "toml"
    THEN { TextFile(<<Blank>>), TextFile(<<(<<"tbl", "other", "">>)>>),
           TextFile(<< <<"tbl", "other", "">>, <<"kv", "command", "x">>, Blank >>) }
    ELSE { EmptyFile, JsonFile(<<>>), JsonFile(<<Theme>>),
           JsonFile(<<(<<ConfigOf(t).key, "map", "", <<>>>>)>>),
           JsonFile(<<Theme, <<ConfigOf(t).key, "map", "", <<>>>>, Lang>>) }

\* One existing target without entries and a loaded registry: either script is
\* about to run on it.
InitRebuild ==
    /\ src \in {SourceOf(r) : r \in RebuildRegistries}
    /\ srcPath = "elsewhere"
    /\ prune \in BOOLEAN
    /\ idx \in DOMAIN TOOL_CONFIGS
    /\ \E c \in EmptyContents(TOOL_CONFIGS[idx].name) :
          fs = [t \in Tools |-> IF t = TOOL_CONFIGS[idx].name THEN c ELSE NoFile]
    /\ backup = [t \in Tools |-> NoFile]
    /\ pc \in {"rebuild", "merge"}
    /\ run = 0
    /\ outcome = Pending
    /\ report = NoReport
    /\ pre = fs

\* One run of the rebuild script's loop body on the one target, which exists.
FullRebuild ==
    /\ pc = "rebuild"
    /\ run < MaxRuns
    /\ fs[Cur].exists
    /\ fs' = [fs EXCEPT ![Cur] = RebuildResult(Cur, fs[Cur], backup[Cur]).file]
    /\ backup' = [backup EXCEPT ![Cur] = RebuildResult(Cur, fs[Cur], backup[Cur]).backup]
    /\ outcome' = [outcome EXCEPT ![Cur] = "synced"]
    /\ run' = run + 1
    /\ pre' = fs
    /\ UNCHANGED <<src, srcPath, prune, pc, idx, report>>

NextRebuild == FullRebuild \/ Merge

SpecRebuild == InitRebuild /\ [][NextRebuild]_vars

\* ------------------------------------------------------------ C11
\* What the diff-based merge writes on a file for target t.
DiffMergeOf(t, file) ==
    IF ConfigOf(t).format = "toml"
    THEN update_toml_config_file(file, NoFile, transform_for_codex(Registry), prune).file
    ELSE update_config_file(file, NoFile, transform_json_format(Registry, t),
                            ConfigOf(t).key, prune).file

\* What the full rebuild writes on a file for target t.
FullRebuildOf(t, file) == RebuildResult(t, file, NoFile).file

\* The first run of either script on the empty target is done: the file it
\* wrote is the file the other script writes on the same empty target.
SameAsOtherScript ==
    /\ pc = "rebuild" => fs[Cur] = DiffMergeOf(Cur, pre[Cur])
    /\ pc = "merge" => fs[Cur] = FullRebuildOf(Cur, pre[Cur])

FirstRunDone == run = 1 /\ pc \in {"rebuild", "merge"} /\ outcome[Cur] = "synced"

\* C11 as stated: rebuild equivalence.  From an empty target the full rebuild
\* and the diff-based merge write identical files for the same registry, for
\* the structured and for the text-sectioned format.
C11_RebuildEquivalent == FirstRunDone => SameAsOtherScript

\* Every entry of the registry holds only keys of key_mappings, in the order
\* of key_mappings.
MappedInOrder(registry) ==
    \A i \in DOMAIN registry :
        registry[i][2] = MapKnownKeys(registry[i][2], key_mappings, 1, <<>>)

\* C11 as amended: from a structured target that holds no entry, the full
\* rebuild and the diff-based merge write identical files when every entry of
\* the registry holds only the keys type, command, args and env, in that order;
\* for the text-sectioned format, and for any other registry, the files differ.
C11_RebuildEquivalentStructured ==
    FirstRunDone =>
        (SameAsOtherScript
            <=> (ConfigOf(Cur).format = "json" /\ MappedInOrder(Registry)))

\* A rebuild of a structured target that holds other keys, from a registry of
\* two entries of mapped keys, one of them with all four.
C11_Witness ==
    /\ FirstRunDone
    /\ pc = "rebuild"
    /\ Cur = "gemini_cli"
    /\ MappedInOrder(Registry)
    /\ Len(Registry) = 2
    /\ \E i \in DOMAIN Registry : Registry[i][2] = StdioFull
    /\ HasKey(pre[Cur].doc, "theme")
    /\ fs[Cur] # pre[Cur]

====
